---- MODULE Spec2Model ----
(***************************************************************************)
(* A model of the trend-signal scripts of prettylittledata:                *)
(*   scripts/analyze_prettydata.py    closed-vocabulary weekly trends      *)
(*   scripts/analyze_unsupervised.py  open-vocabulary phrase trends        *)
(*   scripts/build_signals.py         composite-score signal list          *)
(* Each script is a batch run over a document table; one specification    *)
(* per script (Spec, SpecUnsup, SpecSignals).                              *)
(***************************************************************************)
EXTENDS Integers, Sequences, FiniteSets, TLC

VARIABLES
    rawState,   \* the raw CSV on disk: "absent", "blank" (no header), "table"
    raw,        \* the rows of the raw CSV, a bag: row -> number of copies
    termsFile,  \* the terms file: "absent", "empty" (no term), "terms"
    pc,         \* "input" before the run; "done", "returned", "failed" after
    written,    \* the output files the run has written
    k,          \* the k handed to top_or_sig
    ts,         \* analyze: term -> bucket series handed to the estimator
    fitted,     \* the terms for which a regression fit was attempted
    trend,      \* analyze: term -> [estimate, p_value]
    inc,        \* increasing terms, a ranked list
    dec,        \* decreasing terms, a ranked list
    args,       \* analyze_unsupervised: the command line (min_df, max_df, new_weeks)
    ct,         \* analyze_unsupervised: phrase counts over time, rows (period, Term, Count)
    vocab,      \* analyze_unsupervised: the vocabulary the vectorizer learned
    join,       \* analyze_unsupervised: Term -> slope table row with first/last seen
    new,        \* analyze_unsupervised: newly emerging terms, a ranked list
    rows,       \* build_signals: the fetched feed entries
    phr,        \* build_signals: the phrase records, after the single-token drop
    agg,        \* build_signals: phrase -> aggregated and scored row
    signals,    \* build_signals: the ranked signal list
    outFile,    \* build_signals: what data/signals.json holds
    exit,       \* build_signals: how the script ended
    stamp,      \* bucket assignment: the epoch second handed to weekfloor / to_period
    bucket,     \* bucket assignment: the bucket it was given, as [by, day]
    tokIn,      \* tokenize: the input string
    tokOut,     \* tokenize: the tokens returned
    listing,    \* scrape_sub: what sr.new serves, and per_sub_limit
    out,        \* scrape_sub: the rows collected so far
    seen,       \* scrape_sub: the counter of appended rows
    cursor,     \* scrape_sub: position of the running listing iteration
    attempt,    \* scrape_sub: the number of failures so far
    scrapePc,   \* scrape_sub: [at, wait], at "listing", "backoff" or "returned"
    max_items,  \* ingest_youtube search: its max_items argument
    items,      \* ingest_youtube search: the items collected so far
    fetched,    \* ingest_youtube search: the fetched counter
    token,      \* ingest_youtube search: the page the held token names, 0 for None
    ytPc,       \* ingest_youtube: "main", "search", "returned", "raised" or "saved"
    queries,    \* ingest_youtube main: the queries still to run, each as what the service holds for it
    ytRows      \* ingest_youtube main: the rows collected so far

analyzeVars == <<rawState, raw, termsFile, pc, written, k, ts, fitted, trend, inc, dec>>

unsupVars == <<args, vocab, ct, join, new>>

signalsVars == <<rows, phr, agg, signals, outFile, exit>>

floorVars == <<stamp, bucket>>

tokenVars == <<tokIn, tokOut>>

scrapeVars == <<listing, out, seen, cursor, attempt, scrapePc>>

youtubeVars == <<max_items, items, fetched, token, ytPc, queries, ytRows>>

restVars == <<floorVars, tokenVars, scrapeVars, youtubeVars>>

----------------------------------------------------------------------------
(* Bounds of the model *)

MaxRows == 4    \* rows in the raw CSV
MaxWeek == 3    \* distinct calendar weeks a row can fall in
MaxK == 2       \* largest k handed to top_or_sig
MaxDocs == 3    \* rows in the raw CSV of analyze_unsupervised
MaxItems == 2   \* feed entries build_signals fetches
MaxLen == 3     \* characters of a string handed to tokenize
MaxListing == 4 \* submissions a subreddit listing serves
MaxLimit == 3   \* largest per_sub_limit
MaxAttempts == 2 \* failures of one scrape_sub call
BatchLen == 2   \* submissions one listing request brings
MaxPage == 2    \* items on one page of search results
MaxPages == 2   \* pages the service holds for one query
MaxPerQuery == 2 \* largest max_items
MaxQueries == 2 \* lines of the queries file

----------------------------------------------------------------------------
(* Generic helpers *)

RECURSIVE SetSum(_, _)
SetSum(S, f) ==
    IF S = {} THEN 0
    ELSE LET x == CHOOSE y \in S : TRUE IN f[x] + SetSum(S \ {x}, f)

RECURSIVE SortAsc(_)
SortAsc(S) ==
    IF S = {} THEN <<>>
    ELSE LET m == CHOOSE x \in S : \A y \in S : x <= y IN <<m>> \o SortAsc(S \ {m})

Range(s) == {s[i] : i \in DOMAIN s}

Perms(S) == {s \in [1..Cardinality(S) -> S] : Range(s) = S}

Min(a, b) == IF a <= b THEN a ELSE b

----------------------------------------------------------------------------
(* The document table: created_utc (epoch seconds) and text *)

\* a second inside week w, counted from Monday 2024-01-01 00:00 UTC
Stamp(w) == 1704067200 + 604800 * w + 200000

IntStamp(n) == [kind |-> "int", v |-> n]
NaNStamp == [kind |-> "nan", v |-> 0]     \* the cell is missing
StrStamp == [kind |-> "str", v |-> 0]     \* the cell holds text that is no number

CreatedUtc == {IntStamp(Stamp(w)) : w \in 0..(MaxWeek - 1)} \cup {NaNStamp, StrStamp}

\* texts, as the token sequences the scripts see
Texts == { <<"boho", "decor">>, <<"air", "fryer", "boho">>,
           <<"the", "home">>, <<"air", "fryer">> }

RawRows == {r \in [created_utc : CreatedUtc, text : Texts] :
               r.created_utc.kind # "int" => r.text = <<"air", "fryer", "boho">>}

\* a bag of rows: the rows present, each with its number of copies
EmptyBag == << >>
BagSize(b) == SetSum(DOMAIN b, b)
BagAdd(b, r) == IF r \in DOMAIN b THEN [b EXCEPT ![r] = @ + 1] ELSE b @@ (r :> 1)

\* the terms file holds these terms
TermList == << <<"boho">>, <<"air", "fryer">> >>

OutputFiles == {"top_words", "top_bigrams", "term_counts_over_time",
                "trend_results", "increasing_terms", "decreasing_terms"}

----------------------------------------------------------------------------
(* analyze_prettydata.py *)

contains_term(text, term) ==
    \E i \in 1..Len(text) :
        i + Len(term) - 1 <= Len(text) /\ SubSeq(text, i, i + Len(term) - 1) = term

load_terms(tf) == IF tf = "terms" THEN TermList ELSE <<>>

\* pd.to_datetime(..., unit="s", errors="coerce"): a timestamp or NaT
to_datetime(c) == IF c.kind = "int" THEN [nat |-> FALSE, v |-> c.v] ELSE [nat |-> TRUE, v |-> 0]

\* dt.to_period("W").start_time, as the epoch day of the week's Monday
period_start(sec) ==
    LET day == sec \div 86400
        weekday == (day + 3) % 7
    IN day - weekday

\* the rows kept by dropna(subset=["date"])
dropna(rowbag) == [r \in {q \in DOMAIN rowbag : ~to_datetime(q.created_utc).nat} |-> rowbag[r]]

df_periods(df) == {period_start(to_datetime(r.created_utc).v) : r \in DOMAIN df}

\* groupby("period")["text"].apply(sum of contains_term), one entry per period of df
term_counts(df, term) ==
    LET ps == SortAsc(df_periods(df))
    IN [i \in 1..Len(ps) |->
          [period |-> ps[i],
           Count |-> SetSum({r \in DOMAIN df : period_start(to_datetime(r.created_utc).v) = ps[i]
                                             /\ contains_term(r.text, term)}, df)]]

\* ts, grouped by Term: no group at all when df has no row
term_series(df, terms) ==
    IF df_periods(df) = {} THEN << >>
    ELSE [t \in Range(terms) |-> term_counts(df, t)]

SeriesTotal(sub) == SetSum(DOMAIN sub, [i \in DOMAIN sub |-> sub[i].Count])
NonzeroBuckets(sub) == Cardinality({i \in DOMAIN sub : sub[i].Count > 0})

Zero == [num |-> 0, den |-> 1]
NoTrend == [estimate |-> Zero, p_value |-> "one"]

\* the 5% critical value of F(1, dof), times 100: the square of Student's t(0.975, dof)
FCrit100(dof) ==
    CASE dof = 1 -> 16145 [] dof = 2 -> 1851 [] dof = 3 -> 1013
      [] dof = 4 -> 771   [] dof = 5 -> 661  [] OTHER -> 599

\* sm.OLS(y, add_constant(x)).fit(): slope as the exact fraction Sxy/Sxx, and the class
\* of the slope's two-sided p-value: "lt05" (p < 0.05), "ge05" (0.05 <= p < 1),
\* "one" (p = 1.0), "nan"
OLS(x, y) ==
    LET n == Len(x)
        I == 1..n
        Sx == SetSum(I, x)
        Sy == SetSum(I, y)
        Sxx == n * SetSum(I, [i \in I |-> x[i] * x[i]]) - Sx * Sx
        Sxy == n * SetSum(I, [i \in I |-> x[i] * y[i]]) - Sx * Sy
        Syy == n * SetSum(I, [i \in I |-> y[i] * y[i]]) - Sy * Sy
        D == Sxx * Syy - Sxy * Sxy
    IN [estimate |-> [num |-> Sxy, den |-> Sxx],
        p_value |-> IF D = 0 THEN (IF Sxy = 0 THEN "nan" ELSE "lt05")
                    ELSE IF Sxy = 0 THEN "one"
                    ELSE IF 100 * (n - 2) * Sxy * Sxy > FCrit100(n - 2) * D THEN "lt05"
                    ELSE "ge05"]

\* whether the loop body reaches sm.OLS for this series
reaches_fit(sub) == ~(Len(sub) < 3 \/ SeriesTotal(sub) = 0)

\* one iteration of the trend regression loop; raises says whether the fit raised
estimate_term(sub, raises) ==
    IF ~reaches_fit(sub) THEN NoTrend
    ELSE IF raises THEN NoTrend
    ELSE OLS([i \in DOMAIN sub |-> sub[i].period - sub[1].period],
             [i \in DOMAIN sub |-> sub[i].Count])

----------------------------------------------------------------------------
(* top_or_sig *)

\* the sign of a - b, for fractions with positive denominators
Cmp(a, b) == a.num * b.den - b.num * a.den

SignMatches(e, direction) == IF direction = "+" THEN e.num > 0 ELSE e.num < 0

\* a before b in the direction's order: largest first for "+", smallest first for "-"
Before(a, b, direction) ==
    IF direction = "+" THEN Cmp(a.estimate, b.estimate) >= 0
    ELSE Cmp(a.estimate, b.estimate) <= 0

\* the orders sort_values / nlargest / nsmallest can leave the rows in (ties in any order)
SortedBy(S, direction) ==
    {s \in Perms(S) : \A i, j \in DOMAIN s : i < j => Before(s[i], s[j], direction)}

TrendRows(tr) ==
    {[Term |-> t, estimate |-> tr[t].estimate, p_value |-> tr[t].p_value] : t \in DOMAIN tr}

\* top_or_sig without the significance tier: always the top k by slope
top_or_sig_no_sig_tier(tr, direction, kk) ==
    IF DOMAIN tr = {} THEN { << >> }
    ELSE LET match == {r \in TrendRows(tr) : SignMatches(r.estimate, direction)}
         IN {SubSeq(s, 1, Min(kk, Len(s))) : s \in SortedBy(match, direction)}

top_or_sig(tr, direction, kk) ==
    IF DOMAIN tr = {} THEN { << >> }
    ELSE LET df == TrendRows(tr)
             match == {r \in df : SignMatches(r.estimate, direction)}
             sig == {r \in match : r.p_value = "lt05"}
             top == {SubSeq(s, 1, Min(kk, Len(s))) : s \in SortedBy(match, direction)}
         IN IF sig # {} THEN SortedBy(sig, direction) ELSE top

----------------------------------------------------------------------------
(* The run of analyze *)

InitAnalyze ==
    /\ rawState \in {"absent", "blank", "table"}
    /\ raw = EmptyBag
    /\ termsFile \in {"absent", "empty", "terms"}
    /\ pc = "input"
    /\ written = {}
    /\ k = 0
    /\ ts = << >>
    /\ fitted = {}
    /\ trend = << >>
    /\ inc = << >>
    /\ dec = << >>

\* a collector appends one row to the raw CSV
Scrape(r) ==
    /\ pc = "input"
    /\ rawState = "table"
    /\ BagSize(raw) < MaxRows
    /\ raw' = BagAdd(raw, r)
    /\ UNCHANGED <<rawState, termsFile, pc, written, k, ts, fitted, trend, inc, dec>>
    /\ UNCHANGED <<unsupVars, signalsVars, restVars>>

\* analyze(): the raw CSV does not exist
AnalyzeMissingRaw ==
    /\ pc = "input"
    /\ rawState = "absent"
    /\ pc' = "returned"
    /\ UNCHANGED <<rawState, raw, termsFile, written, k, ts, fitted, trend, inc, dec>>
    /\ UNCHANGED <<unsupVars, signalsVars, restVars>>

\* analyze(): load_terms raises FileNotFoundError
AnalyzeMissingTerms ==
    /\ pc = "input"
    /\ rawState # "absent"
    /\ termsFile = "absent"
    /\ pc' = "failed"
    /\ UNCHANGED <<rawState, raw, termsFile, written, k, ts, fitted, trend, inc, dec>>
    /\ UNCHANGED <<unsupVars, signalsVars, restVars>>

\* analyze(): pd.read_csv raises EmptyDataError on a file without a header line
AnalyzeBlankRaw ==
    /\ pc = "input"
    /\ rawState = "blank"
    /\ termsFile # "absent"
    /\ pc' = "failed"
    /\ UNCHANGED <<rawState, raw, termsFile, written, k, ts, fitted, trend, inc, dec>>
    /\ UNCHANGED <<unsupVars, signalsVars, restVars>>

\* analyze(): the whole run over a readable table
AnalyzeRun(kk, failing) ==
    /\ pc = "input"
    /\ rawState = "table"
    /\ termsFile # "absent"
    /\ ts' = term_series(dropna(raw), load_terms(termsFile))
    /\ fitted' = {t \in DOMAIN ts' : reaches_fit(ts'[t])}
    /\ trend' = [t \in DOMAIN ts' |-> estimate_term(ts'[t], t \in failing)]
    /\ inc' \in top_or_sig(trend', "+", kk)
    /\ dec' \in top_or_sig(trend', "-", kk)
    /\ k' = kk
    /\ written' = OutputFiles
    /\ pc' = "done"
    /\ UNCHANGED <<rawState, raw, termsFile>>
    /\ UNCHANGED <<unsupVars, signalsVars, restVars>>

NextAnalyze ==
    \/ \E r \in RawRows : Scrape(r)
    \/ AnalyzeMissingRaw
    \/ AnalyzeMissingTerms
    \/ AnalyzeBlankRaw
    \/ \E kk \in 1..MaxK : \E failing \in {{}} \cup {{t} : t \in Range(TermList)} :
          AnalyzeRun(kk, failing)

vars == <<analyzeVars, unsupVars, signalsVars, restVars>>

----------------------------------------------------------------------------
(* analyze_unsupervised.py *)

UnsupFiles == {"top_phrases", "phrase_counts_over_time", "increasing_terms",
               "decreasing_terms", "new_terms"}

NOISE_STOPWORDS ==
    {"http", "https", "www", "com", "net", "org", "href", "amp", "cdn", "utm", "xml", "rss",
     "html", "htm", "php", "gif", "jpg", "jpeg", "png", "svg"}

GENERIC_UNIGRAMS ==
    {"design", "designer", "designers", "trend", "trends",
     "fashion", "style", "styles", "decor", "beauty", "ideas", "home"}

\* the stop list of build_vec: NOISE_STOPWORDS and, of sklearn's ENGLISH_STOP_WORDS,
\* the one word the texts of the model use
StopWords == NOISE_STOPWORDS \cup {"the"}

\* the epoch day of the Monday of the week of epoch second sec
\* weekfloor counting the days of the week from Sunday
weekfloor_from_sunday(sec) ==
    LET day == sec \div 86400
        weekday == (day + 4) % 7
    IN day - weekday

weekfloor(sec) ==
    LET day == sec \div 86400
        weekday == (day + 3) % 7
    IN day - weekday

\* df["created_utc"].fillna(0).astype(int), for a cell that holds a number or nothing
fillna0_int(c) == IF c.kind = "nan" THEN 0 ELSE c.v

\* astype(int) raises on a cell that holds text
astype_raises(df) == \E r \in DOMAIN df : r.created_utc.kind = "str"

\* CountVectorizer's analyzer: tokens (all of 3+ letters here), stop words removed, then
\* the 1- to 3-grams of what is left
analyzer_tokens(doc) == SelectSeq(doc, LAMBDA w : w \notin StopWords)

doc_ngrams(doc) ==
    LET toks == analyzer_tokens(doc)
    IN {SubSeq(toks, p[1], p[1] + p[2] - 1) :
           p \in {q \in (1..Len(toks)) \X (1..3) : q[1] + q[2] - 1 <= Len(toks)}}

ngram_count(doc, g) ==
    LET toks == analyzer_tokens(doc)
    IN Cardinality({i \in 1..Len(toks) :
           i + Len(g) - 1 <= Len(toks) /\ SubSeq(toks, i, i + Len(g) - 1) = g})

doc_freq(df, g) == SetSum({r \in DOMAIN df : g \in doc_ngrams(r.text)}, df)

\* CountVectorizer(min_df, max_df).fit: the vocabulary, or a ValueError (ok = FALSE) when
\* no term is found, max_df * n_doc < min_df, or pruning leaves no term; max_df in tenths
build_vec(df, min_df, max_df10) ==
    LET n_doc == BagSize(df)
        terms == UNION {doc_ngrams(r.text) : r \in DOMAIN df}
        kept == {g \in terms : doc_freq(df, g) >= min_df
                               /\ 10 * doc_freq(df, g) <= max_df10 * n_doc}
    IN IF terms = {} \/ max_df10 * n_doc < 10 * min_df \/ kept = {}
       THEN [ok |-> FALSE, vocab |-> {}]     \* the vocabulary of a fit is never empty
       ELSE [ok |-> TRUE, vocab |-> kept]

week_count(df, w, g) ==
    LET rowsOfWeek == {r \in DOMAIN df : weekfloor(fillna0_int(r.created_utc)) = w}
    IN SetSum(rowsOfWeek, [r \in rowsOfWeek |-> df[r] * ngram_count(r.text, g)])

\* one row per week and vocabulary term with a nonzero count
counts_by_week(df, vocabulary) ==
    LET weeks == {weekfloor(fillna0_int(r.created_utc)) : r \in DOMAIN df}
    IN {rec \in {[period |-> q[1], Term |-> q[2], Count |-> week_count(df, q[1], q[2])] :
                     q \in weeks \X vocabulary} : rec.Count > 0}

NaNSlope == [nan |-> TRUE, num |-> 0, den |-> 1]

\* scipy.stats.linregress(x, y): slope as the exact fraction Sxy/Sxx and the class of
\* the p-value.  One point: 0/0, slope and p-value are NaN.  Two points: p is 1.0 when
\* the two y are equal and 0.0 otherwise.
linregress(x, y) ==
    LET n == Len(x)
        I == 1..n
        Sx == SetSum(I, x)
        Sy == SetSum(I, y)
        Sxx == n * SetSum(I, [i \in I |-> x[i] * x[i]]) - Sx * Sx
        Sxy == n * SetSum(I, [i \in I |-> x[i] * y[i]]) - Sx * Sy
        Syy == n * SetSum(I, [i \in I |-> y[i] * y[i]]) - Sy * Sy
        D == Sxx * Syy - Sxy * Sxy
    IN IF n = 1 THEN [slope |-> NaNSlope, pvalue |-> "nan"]
       ELSE [slope |-> [nan |-> FALSE, num |-> Sxy, den |-> Sxx],
             pvalue |-> IF n = 2 THEN (IF y[1] = y[2] THEN "one" ELSE "lt05")
                        ELSE IF Sxy = 0 THEN "one"
                        ELSE IF D = 0 THEN "lt05"
                        ELSE IF 100 * (n - 2) * Sxy * Sxy > FCrit100(n - 2) * D THEN "lt05"
                        ELSE "ge05"]

ct_weeks(c) == SortAsc({r.period : r \in c})
ct_terms(c) == {r.Term : r \in c}

\* the y vector slope_table fills for one term: one entry per week of ct
term_y(c, term) ==
    LET weeks == ct_weeks(c)
    IN [i \in 1..Len(weeks) |->
          IF \E r \in c : r.Term = term /\ r.period = weeks[i]
          THEN (CHOOSE r \in c : r.Term = term /\ r.period = weeks[i]).Count
          ELSE 0]

\* slope_table joined with first_seen and last_seen
slope_table(c) ==
    [term \in ct_terms(c) |->
        LET y == term_y(c, term)
            lr == linregress([i \in DOMAIN y |-> i - 1], y)
            periods == {r.period : r \in {q \in c : q.Term = term}}
        IN [Total |-> SetSum(DOMAIN y, y),
            slope |-> lr.slope,
            pvalue |-> lr.pvalue,
            weeks_present |-> Cardinality({i \in DOMAIN y : y[i] > 0}),
            first_seen |-> CHOOSE w \in periods : \A v \in periods : w <= v,
            last_seen |-> CHOOSE w \in periods : \A v \in periods : w >= v]]

slope_positive(sl) == ~sl.nan /\ sl.num > 0
slope_negative(sl) == ~sl.nan /\ sl.num < 0

\* the sign of |slope a| / sqrt(Total a + 1) - |slope b| / sqrt(Total b + 1)
ScoreCmp(a, b) ==
    LET A == a.slope.num * b.slope.den
        B == b.slope.num * a.slope.den
    IN A * A * (b.Total + 1) - B * B * (a.Total + 1)

\* sort_values(["score","slope","Total"], ascending=[False, False, False])
UpBefore(a, b) ==
    \/ ScoreCmp(a, b) > 0
    \/ ScoreCmp(a, b) = 0 /\ Cmp(a.slope, b.slope) > 0
    \/ ScoreCmp(a, b) = 0 /\ Cmp(a.slope, b.slope) = 0 /\ a.Total >= b.Total

\* sort_values(["score","slope","Total"], ascending=[False, True, True])
DownBefore(a, b) ==
    \/ ScoreCmp(a, b) > 0
    \/ ScoreCmp(a, b) = 0 /\ Cmp(a.slope, b.slope) < 0
    \/ ScoreCmp(a, b) = 0 /\ Cmp(a.slope, b.slope) = 0 /\ a.Total <= b.Total

\* the terms of S in ranked order (rows that tie on all three keys in a fixed order)
RECURSIVE RankTerms(_, _, _)
RankTerms(S, j, up) ==
    IF S = {} THEN << >>
    ELSE LET first == CHOOSE t \in S : \A u \in S :
                          IF up THEN UpBefore(j[t], j[u]) ELSE DownBefore(j[t], j[u])
         IN <<first>> \o RankTerms(S \ {first}, j, up)

drop_generic_unigrams(S) == {t \in S : ~(Len(t) = 1 /\ t[1] \in GENERIC_UNIGRAMS)}

head(s, n) == SubSeq(s, 1, Min(n, Len(s)))

increasing_terms(j) ==
    head(RankTerms(drop_generic_unigrams({t \in DOMAIN j : slope_positive(j[t].slope)}), j, TRUE), 200)

decreasing_terms(j) ==
    head(RankTerms(drop_generic_unigrams({t \in DOMAIN j : slope_negative(j[t].slope)}), j, FALSE), 200)

new_cutoff(c, new_weeks) ==
    LET weeks == ct_weeks(c)
    IN IF Len(weeks) > new_weeks THEN weeks[Len(weeks) - new_weeks + 1] ELSE weeks[1]

new_terms(c, j, new_weeks) ==
    head(RankTerms(drop_generic_unigrams(
             {t \in DOMAIN j : j[t].first_seen >= new_cutoff(c, new_weeks)
                               /\ slope_positive(j[t].slope)}), j, TRUE), 200)

----------------------------------------------------------------------------
(* The run of analyze_unsupervised *)

FloorIdle == stamp = 0 /\ bucket = [by |-> "none", day |-> 0]

TokenIdle == tokIn = << >> /\ tokOut = [done |-> FALSE, toks |-> << >>]

ScrapeIdle ==
    /\ listing = [n |-> 0, fresh |-> 0, per_sub_limit |-> 0]
    /\ out = << >> /\ seen = 0 /\ cursor = 0 /\ attempt = 0
    /\ scrapePc = [at |-> "idle", wait |-> 0]

YoutubeIdle ==
    /\ max_items = 0 /\ items = << >> /\ fetched = 0 /\ token = 0
    /\ ytPc = "idle" /\ queries = << >> /\ ytRows = << >>

RestIdle == FloorIdle /\ TokenIdle /\ ScrapeIdle /\ YoutubeIdle

AnalyzeIdle ==
    termsFile = "absent" /\ k = 0 /\ ts = << >> /\ fitted = {} /\ trend = << >>

SignalsIdle ==
    /\ rows = << >> /\ phr = << >> /\ agg = << >> /\ signals = << >>
    /\ outFile = [kind |-> "none", signals |-> << >>] /\ exit = "idle"

InitUnsup ==
    /\ rawState \in {"absent", "blank", "table"}
    /\ raw = EmptyBag
    /\ pc = "input"
    /\ written = {}
    /\ inc = << >>
    /\ dec = << >>
    /\ args = << >>
    /\ vocab = {}
    /\ ct = {}
    /\ join = << >>
    /\ new = << >>
    /\ AnalyzeIdle
    /\ SignalsIdle
    /\ RestIdle

\* a collector appends one row to the raw CSV
Collect(r) ==
    /\ pc = "input"
    /\ rawState = "table"
    /\ BagSize(raw) < MaxDocs
    /\ raw' = BagAdd(raw, r)
    /\ UNCHANGED <<rawState, pc, written, inc, dec, args, vocab, ct, join, new>>
    /\ UNCHANGED <<termsFile, k, ts, fitted, trend>>
    /\ UNCHANGED <<signalsVars, restVars>>

\* main(): pd.read_csv raises (no file, or a file without a header line)
UnsupUnreadable ==
    /\ pc = "input"
    /\ rawState # "table"
    /\ pc' = "failed"
    /\ UNCHANGED <<rawState, raw, written, inc, dec, args, vocab, ct, join, new>>
    /\ UNCHANGED <<termsFile, k, ts, fitted, trend>>
    /\ UNCHANGED <<signalsVars, restVars>>

\* main(): df.empty, the five empty CSVs are written
UnsupEmpty ==
    /\ pc = "input"
    /\ rawState = "table"
    /\ raw = EmptyBag
    /\ written' = UnsupFiles
    /\ pc' = "done"
    /\ UNCHANGED <<rawState, raw, inc, dec, args, vocab, ct, join, new>>
    /\ UNCHANGED <<termsFile, k, ts, fitted, trend>>
    /\ UNCHANGED <<signalsVars, restVars>>

\* main(): astype(int) or build_vec raises, before any output
UnsupRaises(min_df, max_df10) ==
    /\ pc = "input"
    /\ rawState = "table"
    /\ raw # EmptyBag
    /\ astype_raises(raw) \/ ~build_vec(raw, min_df, max_df10).ok
    /\ args' = [min_df |-> min_df, max_df10 |-> max_df10]
    /\ pc' = "failed"
    /\ UNCHANGED <<rawState, raw, written, inc, dec, vocab, ct, join, new>>
    /\ UNCHANGED <<termsFile, k, ts, fitted, trend>>
    /\ UNCHANGED <<signalsVars, restVars>>

\* main(): the whole run
UnsupRun(min_df, max_df10, new_weeks) ==
    /\ pc = "input"
    /\ rawState = "table"
    /\ raw # EmptyBag
    /\ ~astype_raises(raw)
    /\ vocab' = build_vec(raw, min_df, max_df10).vocab
    /\ vocab' # {}
    /\ args' = [min_df |-> min_df, max_df10 |-> max_df10, new_weeks |-> new_weeks]
    /\ ct' = counts_by_week(raw, vocab')
    /\ join' = slope_table(ct')
    /\ inc' = increasing_terms(join')
    /\ dec' = decreasing_terms(join')
    /\ new' = new_terms(ct', join', new_weeks)
    /\ written' = UnsupFiles
    /\ pc' = "done"
    /\ UNCHANGED <<rawState, raw>>
    /\ UNCHANGED <<termsFile, k, ts, fitted, trend>>
    /\ UNCHANGED <<signalsVars, restVars>>

MinDfs == {1, 2}
MaxDf10s == {6, 10}
NewWeeks == {1, 2}

NextUnsup ==
    \/ \E r \in RawRows : Collect(r)
    \/ UnsupUnreadable
    \/ UnsupEmpty
    \/ \E m \in MinDfs : \E x \in MaxDf10s : UnsupRaises(m, x)
    \/ \E m \in MinDfs : \E x \in MaxDf10s : \E w \in NewWeeks : UnsupRun(m, x, w)

SpecUnsup == InitUnsup /\ [][NextUnsup]_vars

----------------------------------------------------------------------------
(* build_signals.py.  A string is the sequence of its characters. *)

LowerCase == {"a", "b", "c", "d", "e", "f", "g", "h", "i", "j", "k", "l", "m",
              "n", "o", "p", "q", "r", "s", "t", "u", "v", "w", "x", "y", "z"}
UpperSeq == <<"A", "B", "C", "D", "E", "F", "G", "H", "I", "J", "K", "L", "M",
              "N", "O", "P", "Q", "R", "S", "T", "U", "V", "W", "X", "Y", "Z">>
LowerSeq == <<"a", "b", "c", "d", "e", "f", "g", "h", "i", "j", "k", "l", "m",
              "n", "o", "p", "q", "r", "s", "t", "u", "v", "w", "x", "y", "z">>
Digits == {"0", "1", "2", "3", "4", "5", "6", "7", "8", "9"}
Whitespace == {" ", "\n", "\t"}

STOP_PHRASES == {
    <<"t", "h", "e">>, <<"a">>, <<"a", "n">>, <<"a", "n", "d">>, <<"o", "r">>,
    <<"b", "u", "t">>, <<"f", "o", "r">>, <<"w", "i", "t", "h">>, <<"f", "r", "o", "m">>,
    <<"b", "y">>, <<"o", "f">>, <<"i", "n">>, <<"o", "n">>, <<"t", "o">>, <<"a", "t">>,
    <<"i", "n", "t", "o">>, <<"o", "n", "t", "o">>, <<"o", "v", "e", "r">>,
    <<"u", "n", "d", "e", "r">>, <<"a", "s">>, <<"i", "s">>, <<"a", "r", "e">>,
    <<"w", "a", "s">>, <<"w", "e", "r", "e">>, <<"b", "e">>, <<"b", "e", "i", "n", "g">>,
    <<"b", "e", "e", "n">>, <<"v", "s">>, <<"v", "e", "r", "s", "u", "s">>,
    <<"n", "e", "a", "r">>, <<"m", "e">>, <<"g", "u", "i", "d", "e">>,
    <<"r", "e", "v", "i", "e", "w">>, <<"r", "e", "v", "i", "e", "w", "s">>,
    <<"b", "e", "s", "t">>, <<"t", "o", "p">>, <<"c", "h", "e", "a", "p">>,
    <<"l", "u", "x", "u", "r", "y">>, <<"b", "u", "d", "g", "e", "t">>,
    <<"b", "r", "a", "n", "d">>, <<"b", "r", "a", "n", "d", "s">>, <<"w", "h", "a", "t">>,
    <<"w", "h", "e", "n">>, <<"w", "h", "e", "r", "e">>, <<"w", "h", "y">>, <<"h", "o", "w">> }

\* canonical label -> variants, in the order of the dict
SYNONYMS == <<
    [canon |-> <<"q", "u", "i", "e", "t", " ", "l", "u", "x", "u", "r", "y">>,
     variants |-> << <<"s", "t", "e", "a", "l", "t", "h", " ", "w", "e", "a", "l", "t", "h">> >>],
    [canon |-> <<"a", "r", "t", " ", "d", "e", "c", "o">>,
     variants |-> << <<"a", "r", "t", "-", "d", "e", "c", "o">> >>],
    [canon |-> <<"y", "2", "k">>,
     variants |-> << <<"y", "2", "k", " ", "a", "e", "s", "t", "h", "e", "t", "i", "c">> >>] >>

\* str.lower(), one character ("e_acute" stands for the letter e with an acute
\* accent, "numero_sign" for the numero sign, which unidecode spells "No")
lower(c) ==
    IF \E i \in DOMAIN UpperSeq : UpperSeq[i] = c
    THEN LowerSeq[CHOOSE i \in DOMAIN UpperSeq : UpperSeq[i] = c]
    ELSE c

\* unidecode(), one character: the closest ASCII text
unidecode(c) ==
    IF c = "e_acute" THEN <<"e">>
    ELSE IF c = "numero_sign" THEN <<"N", "o">>
    ELSE <<c>>

\* the two character-class substitutions of tokenize
sub_separators(c) == IF c \in {"#", "@", "/", "\\", "|", "_"} THEN " " ELSE c
\* the second substitution leaving every character in place
sub_other_keeps_all(c) == c

sub_other(c) == IF c \in LowerCase \cup Digits \cup {"-"} \cup Whitespace THEN c ELSE " "

RECURSIVE clean_chars(_)
clean_chars(text) ==
    IF text = << >> THEN << >>
    ELSE LET u == unidecode(lower(Head(text)))
         IN [i \in DOMAIN u |-> sub_other(sub_separators(u[i]))] \o clean_chars(Tail(text))

\* str.split(): the maximal runs without whitespace
RECURSIVE split(_, _)
split(chars, cur) ==
    IF chars = << >> THEN (IF cur = << >> THEN << >> ELSE <<cur>>)
    ELSE IF Head(chars) \in Whitespace
         THEN (IF cur = << >> THEN << >> ELSE <<cur>>) \o split(Tail(chars), << >>)
         ELSE split(Tail(chars), Append(cur, Head(chars)))

tokenize(text) == split(clean_chars(text), << >>)

\* " ".join(grams)
RECURSIVE join_space(_)
join_space(grams) ==
    IF Len(grams) = 0 THEN << >>
    ELSE IF Len(grams) = 1 THEN grams[1]
    ELSE grams[1] \o <<" ">> \o join_space(Tail(grams))

has_letter(tok) == \E i \in DOMAIN tok : tok[i] \in LowerCase

RECURSIVE grams_from(_, _, _)
grams_from(toks, n, i) ==
    IF i > Len(toks) - n + 1 THEN << >>
    ELSE LET grams == SubSeq(toks, i, i + n - 1)
         IN (IF (\E j \in DOMAIN grams : grams[j] \in STOP_PHRASES)
                \/ ~(\A j \in DOMAIN grams : has_letter(grams[j]))
             THEN << >> ELSE <<join_space(grams)>>)
            \o grams_from(toks, n, i + 1)

\* the phrases candidate_phrases yields, in order
candidate_phrases(text) ==
    LET toks == tokenize(text)
    IN grams_from(toks, 2, 1) \o grams_from(toks, 3, 1) \o grams_from(toks, 4, 1)

canonicalize(phrase) ==
    IF \E i \in DOMAIN SYNONYMS :
          phrase = SYNONYMS[i].canon \/ phrase \in Range(SYNONYMS[i].variants)
    THEN SYNONYMS[CHOOSE i \in DOMAIN SYNONYMS :
                     /\ phrase = SYNONYMS[i].canon \/ phrase \in Range(SYNONYMS[i].variants)
                     /\ \A j \in 1..(i - 1) :
                           ~(phrase = SYNONYMS[j].canon \/ phrase \in Range(SYNONYMS[j].variants))
                 ].canon
    ELSE phrase

count_spaces(p) == Cardinality({i \in DOMAIN p : p[i] = " "})

\* ok_phrase without the hyphen test
ok_phrase_no_hyphen_test(p) ==
    /\ ~(p # << >> /\ \A i \in DOMAIN p : p[i] \in Digits)
    /\ ~(\E tok \in Range(split(p, << >>)) : tok \in STOP_PHRASES)

ok_phrase(p) ==
    /\ ~(p # << >> /\ \A i \in DOMAIN p : p[i] \in Digits)
    /\ ~(p # << >> /\ (p[1] = "-" \/ p[Len(p)] = "-"))
    /\ ~(\E tok \in Range(split(p, << >>)) : tok \in STOP_PHRASES)

\* title and summary of the fetched entries, joined
ItemTexts == {
    <<"S", "t", "e", "a", "l", "t", "h", " ", "w", "e", "a", "l", "t", "h">>,
    <<"b", "o", "h", "o", " ", "-", "c", "h", "i", "c", " ", "l", "o", "o", "k">>,
    <<"a", "r", "t", " ", "d", "e", "c", "o", " ", "#", "2", "0", "2", "4">>,
    <<"Y", "2", "K", " ", "a", "e", "s", "t", "h", "e", "t", "i", "c">>,
    <<"t", "h", "e", " ", "c", "a", "f", "e_acute", " ", "c", "h", "i", "c", "-">>,
    <<"B", "o", "h", "o", " ", "l", "o", "o", "k", ":", " ", "t", "h", "e", " ", "a", "r", "t", " ", "d", "e", "c", "o", "!">>,
    <<"T", "h", "e", " ", "b", "e", "s", "t", " ", "o", "f", " ", "2", "0", "2", "4">> }

\* (source, category) of the configured feeds
FeedKinds == { [source |-> "rss", category |-> "fashion"],
               [source |-> "youtube", category |-> "design"] }

\* the category labels, in string order
CategoryOrder == <<"culture/beauty/wellness", "design", "fashion">>

MinDateDays == 28    \* MIN_DATE lies this many days before the start of the script
LongWindow == 28     \* w28
ShortWindow == 7     \* w7
HeadLimit == 200     \* head(200)

\* the age of a feed entry at fetch time, in whole days
FeedAges == {2, 20, 28, 35}

FeedEntries ==
    { [source |-> f.source, category |-> f.category, age |-> a, text |-> t] :
        f \in FeedKinds, a \in FeedAges, t \in ItemTexts }

\* the canonical phrases of each text, in the order candidate_phrases yields them
PhraseTable ==
    [t \in ItemTexts |->
        LET c == candidate_phrases(t) IN [i \in DOMAIN c |-> canonicalize(c[i])]]

occurrences(s, p) == Cardinality({i \in DOMAIN s : s[i] = p})

\* the records list, as a bag
records(rs) ==
    LET keys == UNION { { [phrase |-> p, category |-> r.category,
                           source |-> r.source, age |-> r.age] :
                             p \in Range(PhraseTable[r.text]) } : r \in DOMAIN rs }
    IN [rec \in keys |->
          SetSum({r \in DOMAIN rs : /\ r.category = rec.category
                                    /\ r.source = rec.source
                                    /\ r.age = rec.age},
                 [r \in DOMAIN rs |-> rs[r] * occurrences(PhraseTable[r.text], rec.phrase)])]

\* phr[phr["phrase"].str.count(" ") >= 1]
drop_single_token(b) == [rec \in {x \in DOMAIN b : count_spaces(x.phrase) >= 1} |-> b[rec]]

\* date >= now - days.  now is read after the fetch, so an entry that was a whole
\* number of days old at fetch time is inside the window iff that number is
\* smaller than days.
\* in_window with every record counted in the short window
in_window_short_unbounded(rec, days) == rec.age < days \/ days = ShortWindow

in_window(rec, days) == rec.age < days

window_count(b, days) ==
    LET inside == {rec \in DOMAIN b : in_window(rec, days)}
    IN [p \in {rec.phrase : rec \in inside} |->
          SetSum({rec \in inside : rec.phrase = p}, b)]

source_breadth(b, p) ==
    Cardinality({rec.source : rec \in {x \in DOMAIN b : x.phrase = p /\ in_window(x, LongWindow)}})

Position(c) == CHOOSE i \in DOMAIN CategoryOrder : CategoryOrder[i] = c

\* the category with most mentions of p in the long window; among equals the
\* first in string order (groupby sorts its keys, the sort that follows is stable)
topcat(b, p) ==
    LET inside == {rec \in DOMAIN b : rec.phrase = p /\ in_window(rec, LongWindow)}
        c(cat) == SetSum({rec \in inside : rec.category = cat}, b)
        cats == {rec.category : rec \in inside}
    IN CHOOSE x \in cats :
          \A y \in cats \ {x} : c(x) > c(y) \/ (c(x) = c(y) /\ Position(x) < Position(y))

\* a / b with a zero divisor replaced by NaN and the NaN filled with 0
Ratio(a, b) == IF b = 0 THEN [num |-> 0, den |-> 1] ELSE [num |-> a, den |-> b]

aggregate(b) ==
    LET vol28 == window_count(b, LongWindow)
        vol7 == window_count(b, ShortWindow)
    IN [p \in DOMAIN vol28 |->
          LET m7 == IF p \in DOMAIN vol7 THEN vol7[p] ELSE 0
          IN [mentions_28d |-> vol28[p],
              mentions_7d |-> m7,
              source_breadth |-> source_breadth(b, p),
              recency |-> Ratio(m7, vol28[p]),
              growth |-> Ratio(4 * m7, vol28[p]),
              category |-> topcat(b, p)]]

RECURSIVE Gcd(_, _)
Gcd(a, b) == IF b = 0 THEN a ELSE Gcd(b, a % b)

RECURSIVE SetGcd(_)
SetGcd(S) ==
    IF S = {} THEN 0
    ELSE LET x == CHOOSE y \in S : TRUE IN Gcd(x, SetGcd(S \ {x}))

RECURSIVE SetLcm(_)
SetLcm(S) ==
    IF S = {} THEN 1
    ELSE LET x == CHOOSE y \in S : TRUE
             r == SetLcm(S \ {x})
         IN (x * r) \div Gcd(x, r)

Abs(a) == IF a < 0 THEN -a ELSE a
Sign(a) == IF a < 0 THEN -1 ELSE IF a > 0 THEN 1 ELSE 0

\* the integer part of the square root
Isqrt(v) == CHOOSE r \in 0..v : r * r <= v /\ (r + 1) * (r + 1) > v

\* zscore of a column of rationals, in hundredths (cut towards zero):
\* (x - mean) / std(ddof=1) = d * sqrt((n - 1) / sum of d^2) with d = n*x - sum of x,
\* and 0 where the deviation is 0 or undefined and the divisor becomes 1.0
zscore(s) ==
    LET keys == DOMAIN s
        n == Cardinality(keys)
        L == SetLcm({s[q].den : q \in keys})
        X == [q \in keys |-> s[q].num * (L \div s[q].den)]
        total == SetSum(keys, X)
        D0 == [q \in keys |-> n * X[q] - total]
        g == SetGcd({Abs(D0[q]) : q \in keys})
        D == [q \in keys |-> IF g = 0 THEN 0 ELSE D0[q] \div g]
        SS == SetSum(keys, [q \in keys |-> D[q] * D[q]])
    IN [q \in keys |->
          IF n <= 1 \/ SS = 0 THEN 0
          ELSE Sign(D[q]) * Isqrt((D[q] * D[q] * (n - 1) * 10000) \div SS)]

Whole(x) == [num |-> x, den |-> 1]

\* the z columns in hundredths, interest_score in two-hundredths
score(a) ==
    LET z_volume == zscore([q \in DOMAIN a |-> Whole(a[q].mentions_7d)])
        z_growth == zscore([q \in DOMAIN a |-> a[q].growth])
        z_breadth == zscore([q \in DOMAIN a |-> Whole(a[q].source_breadth)])
        z_recency == zscore([q \in DOMAIN a |-> a[q].recency])
    IN [q \in DOMAIN a |->
          [mentions_28d |-> a[q].mentions_28d,
           mentions_7d |-> a[q].mentions_7d,
           source_breadth |-> a[q].source_breadth,
           recency |-> a[q].recency,
           growth |-> a[q].growth,
           category |-> a[q].category,
           z_volume |-> z_volume[q],
           z_growth |-> z_growth[q],
           z_breadth |-> z_breadth[q],
           z_recency |-> z_recency[q],
           interest_score |-> 2 * z_volume[q] + 3 * z_growth[q] + z_breadth[q] + z_recency[q]]]

RECURSIVE rankings_any_order(_, _)
RECURSIVE rankings(_, _)

\* rankings without the sort: the phrases of S in any order
rankings_any_order(a, S) ==
    IF S = {} THEN { << >> }
    ELSE UNION { { <<q>> \o r : r \in rankings_any_order(a, S \ {q}) } : q \in S }

\* the orders sort_values("interest_score", ascending=False) can leave the
\* phrases of S in: the sort is not stable, equal scores come out in any order
rankings(a, S) ==
    IF S = {} THEN { << >> }
    ELSE UNION { { <<q>> \o r : r \in rankings(a, S \ {q}) } :
                   q \in {x \in S : \A y \in S : a[x].interest_score >= a[y].interest_score} }

\* round(a / b) for a >= 0, halves to the even neighbour
RoundDiv(a, b) ==
    LET q == a \div b
        r == a % b
    IN IF 2 * r < b THEN q
       ELSE IF 2 * r > b THEN q + 1
       ELSE IF q % 2 = 0 THEN q ELSE q + 1

\* one object of the signals list; growth_ratio in hundredths, recency_share in thousandths
signal_of(a, q) ==
    [signal |-> q,
     category |-> a[q].category,
     volume_7d |-> a[q].mentions_7d,
     volume_28d |-> a[q].mentions_28d,
     growth_ratio |-> RoundDiv(100 * a[q].growth.num, a[q].growth.den),
     source_breadth |-> a[q].source_breadth,
     recency_share |-> RoundDiv(1000 * a[q].recency.num, a[q].recency.den),
     interest_score |-> a[q].interest_score]

\* agg[agg["phrase"].apply(ok_phrase)], ranked, head(n), turned into objects
signal_list(a, n) ==
    { [i \in 1..Min(n, Len(r)) |-> signal_of(a, r[i])] :
        r \in rankings(a, {q \in DOMAIN a : ok_phrase(q)}) }

build_signals(a) == signal_list(a, HeadLimit)

NoFile == [kind |-> "none", signals |-> << >>]
Scaffold == [kind |-> "scaffold", signals |-> << >>]
Written(sig) == [kind |-> "full", signals |-> sig]

----------------------------------------------------------------------------
(* The run of build_signals *)

OthersIdle ==
    /\ rawState = "absent" /\ raw = EmptyBag /\ pc = "input" /\ written = {}
    /\ inc = << >> /\ dec = << >>
    /\ AnalyzeIdle
    /\ args = << >> /\ vocab = {} /\ ct = {} /\ join = << >> /\ new = << >>

InitSignals ==
    /\ rows = << >>
    /\ phr = << >>
    /\ agg = << >>
    /\ signals = << >>
    /\ outFile = NoFile
    /\ exit = "running"
    /\ OthersIdle
    /\ RestIdle

\* fetch_rss_items / fetch_youtube_items append one entry; older ones are skipped
Fetch(e) ==
    /\ exit = "running"
    /\ BagSize(rows) < MaxItems
    /\ e.age <= MinDateDays
    /\ rows' = BagAdd(rows, e)
    /\ UNCHANGED <<phr, agg, signals, outFile, exit>>
    /\ UNCHANGED <<analyzeVars, unsupVars, restVars>>

\* df.empty: the empty scaffold is written, then SystemExit
SignalsNoRows ==
    /\ exit = "running"
    /\ DOMAIN rows = {}
    /\ outFile' = Scaffold
    /\ exit' = "SystemExit"
    /\ UNCHANGED <<rows, phr, agg, signals>>
    /\ UNCHANGED <<analyzeVars, unsupVars, restVars>>

\* phr.empty: the empty scaffold is written, then SystemExit
SignalsNoPhrases ==
    /\ exit = "running"
    /\ DOMAIN rows # {}
    /\ DOMAIN records(rows) = {}
    /\ outFile' = Scaffold
    /\ exit' = "SystemExit"
    /\ UNCHANGED <<rows, phr, agg, signals>>
    /\ UNCHANGED <<analyzeVars, unsupVars, restVars>>

\* There are records but no phrase is left to aggregate.  Filtering the empty
\* frame with the empty result of apply(ok_phrase) depends on the pandas in
\* use: it keeps the columns and an empty list is written, or it selects no
\* column and sort_values raises KeyError before anything is written.
SignalsNothingAggregated(outcome) ==
    /\ exit = "running"
    /\ DOMAIN records(rows) # {}
    /\ phr' = drop_single_token(records(rows))
    /\ DOMAIN aggregate(phr') = {}
    /\ agg' = << >>
    /\ signals' = << >>
    /\ exit' = outcome
    /\ outFile' = IF outcome = "done" THEN Written(<< >>) ELSE outFile
    /\ UNCHANGED rows
    /\ UNCHANGED <<analyzeVars, unsupVars, restVars>>

\* the whole script, from the collected rows to the written file
SignalsRun ==
    /\ exit = "running"
    /\ DOMAIN records(rows) # {}
    /\ phr' = drop_single_token(records(rows))
    /\ DOMAIN aggregate(phr') # {}
    /\ agg' = score(aggregate(phr'))
    /\ signals' \in build_signals(agg')
    /\ outFile' = Written(signals')
    /\ exit' = "done"
    /\ UNCHANGED rows
    /\ UNCHANGED <<analyzeVars, unsupVars, restVars>>

NextSignals ==
    \/ \E e \in FeedEntries : Fetch(e)
    \/ SignalsNoRows
    \/ SignalsNoPhrases
    \/ \E outcome \in {"done", "KeyError"} : SignalsNothingAggregated(outcome)
    \/ SignalsRun

SpecSignals == InitSignals /\ [][NextSignals]_vars




UnsupIdle == args = << >> /\ vocab = {} /\ ct = {} /\ join = << >> /\ new = << >>

Init == InitAnalyze /\ UnsupIdle /\ SignalsIdle /\ RestIdle

Next == NextAnalyze

Spec == Init /\ [][Next]_vars

----------------------------------------------------------------------------
(* Bucket assignment on its own: weekfloor of analyze_unsupervised.py and the
   to_period("W") start of analyze_prettydata.py, applied to one timestamp *)

\* seconds of a day: its first two, noon, and its last
DayOffsets == {0, 1, 43200, 86399}

\* epoch seconds: every day of the weeks from 2024-01-01 on, of the week of the
\* epoch, and of the week before it
BucketStamps ==
    {1704067200 + 86400 * d + o : d \in 0..(7 * MaxWeek - 1), o \in DayOffsets}
        \cup {86400 * d + o : d \in (-7)..6, o \in DayOffsets}

InitBuckets ==
    /\ stamp \in BucketStamps
    /\ bucket = [by |-> "none", day |-> 0]
    /\ TokenIdle /\ ScrapeIdle /\ YoutubeIdle
    /\ OthersIdle /\ SignalsIdle

\* df["created_utc"].apply(weekfloor)
ApplyWeekfloor ==
    /\ bucket.by = "none"
    /\ bucket' = [by |-> "weekfloor", day |-> weekfloor(stamp)]
    /\ UNCHANGED <<stamp, tokenVars, scrapeVars, youtubeVars>>
    /\ UNCHANGED <<analyzeVars, unsupVars, signalsVars>>

\* df["date"].dt.to_period("W").dt.start_time
ApplyToPeriod ==
    /\ bucket.by = "none"
    /\ bucket' = [by |-> "to_period", day |-> period_start(stamp)]
    /\ UNCHANGED <<stamp, tokenVars, scrapeVars, youtubeVars>>
    /\ UNCHANGED <<analyzeVars, unsupVars, signalsVars>>

NextBuckets ==
    \/ ApplyWeekfloor
    \/ ApplyToPeriod

SpecBuckets == InitBuckets /\ [][NextBuckets]_vars

----------------------------------------------------------------------------
(* tokenize of build_signals.py on its own, applied to one string *)

TokenizeAlphabet == {"a", "B", "1", "-", " ", "\n", "#", "!", "e_acute", "numero_sign"}

TokenizeInputs == UNION { [1..m -> TokenizeAlphabet] : m \in 0..MaxLen } \cup ItemTexts

InitTokenize ==
    /\ tokIn \in TokenizeInputs
    /\ tokOut = [done |-> FALSE, toks |-> << >>]
    /\ FloorIdle /\ ScrapeIdle /\ YoutubeIdle
    /\ OthersIdle /\ SignalsIdle

\* toks = tokenize(text)
ApplyTokenize ==
    /\ ~tokOut.done
    /\ tokOut' = [done |-> TRUE, toks |-> tokenize(tokIn)]
    /\ UNCHANGED <<tokIn, floorVars, scrapeVars, youtubeVars>>
    /\ UNCHANGED <<analyzeVars, unsupVars, signalsVars>>

NextTokenize == ApplyTokenize

SpecTokenize == InitTokenize /\ [][NextTokenize]_vars

----------------------------------------------------------------------------
(* scrape_sub of scrape_reddit.py.  The listing sr.new serves is the submissions
   1..n, newest first, of which the first `fresh` are newer than since_epoch; it is
   read lazily, one request per BatchLen submissions. *)

RECURSIVE Pow2(_)
Pow2(e) == IF e <= 0 THEN 1 ELSE 2 * Pow2(e - 1)

\* the seconds backoff_sleep sleeps when the response names no Retry-After
backoff_sleep(base, cap, att) == Min(cap, base * Pow2(att - 1)) + 3

fetch_limit == listing.per_sub_limit * 3

\* the submissions one pass over sr.new(limit=fetch_limit) can yield
ListingEnd == Min(listing.n, fetch_limit)

InitScrape ==
    /\ listing \in { [n |-> n, fresh |-> f, per_sub_limit |-> l] :
                       n \in 0..MaxListing, f \in 0..MaxListing, l \in 1..MaxLimit }
    /\ listing.fresh <= listing.n
    /\ out = << >>
    /\ seen = 0
    /\ attempt = 0
    /\ cursor = 1
    /\ scrapePc = [at |-> "listing", wait |-> 0]
    /\ FloorIdle /\ TokenIdle /\ YoutubeIdle
    /\ OthersIdle /\ SignalsIdle

\* the loop body: a submission inside the window is appended
ScrapeAppend ==
    /\ scrapePc.at = "listing"
    /\ cursor <= ListingEnd
    /\ cursor <= listing.fresh
    /\ out' = Append(out, cursor)
    /\ seen' = seen + 1
    /\ IF seen' >= listing.per_sub_limit
       THEN scrapePc' = [at |-> "returned", wait |-> 0] /\ cursor' = cursor
       ELSE scrapePc' = scrapePc /\ cursor' = cursor + 1
    /\ UNCHANGED <<listing, attempt>>
    /\ UNCHANGED <<floorVars, tokenVars, youtubeVars, analyzeVars, unsupVars, signalsVars>>

\* the listing ends, or a submission older than the window breaks the loop
ScrapeFinished ==
    /\ scrapePc.at = "listing"
    /\ cursor > ListingEnd \/ cursor > listing.fresh
    /\ scrapePc' = [at |-> "returned", wait |-> 0]
    /\ UNCHANGED <<listing, out, seen, cursor, attempt>>
    /\ UNCHANGED <<floorVars, tokenVars, youtubeVars, analyzeVars, unsupVars, signalsVars>>

\* the request for the next batch raises TooManyRequests or RequestException
ScrapeRaises(exc) ==
    /\ scrapePc.at = "listing"
    /\ cursor <= ListingEnd \/ cursor = 1
    /\ (cursor - 1) % BatchLen = 0
    /\ attempt < MaxAttempts
    /\ attempt' = attempt + 1
    /\ scrapePc' = [at |-> "backoff",
                    wait |-> IF exc = "TooManyRequests"
                             THEN backoff_sleep(30, 600, attempt')
                             ELSE backoff_sleep(10, 180, attempt')]
    /\ UNCHANGED <<listing, out, seen, cursor>>
    /\ UNCHANGED <<floorVars, tokenVars, youtubeVars, analyzeVars, unsupVars, signalsVars>>

\* continue: the while loop calls sr.new again, which starts from the newest
ScrapeRetry ==
    /\ scrapePc.at = "backoff"
    /\ cursor' = 1
    /\ scrapePc' = [at |-> "listing", wait |-> 0]
    /\ UNCHANGED <<listing, out, seen, attempt>>
    /\ UNCHANGED <<floorVars, tokenVars, youtubeVars, analyzeVars, unsupVars, signalsVars>>

NextScrape ==
    \/ ScrapeAppend
    \/ ScrapeFinished
    \/ \E exc \in {"TooManyRequests", "RequestException"} : ScrapeRaises(exc)
    \/ ScrapeRetry

SpecScrape == InitScrape /\ [][NextScrape]_vars

----------------------------------------------------------------------------
(* search and main of ingest_youtube.py.  A query stands for what the service
   answers to it: the item counts of its result pages, and whether the service goes
   on handing out a next page token, with empty pages, once those are served. *)

PageLists == UNION { [1..m -> 0..MaxPage] : m \in 0..MaxPages }

Services == { [pages |-> ps, endless |-> e] : ps \in PageLists, e \in BOOLEAN }

InitYoutube ==
    /\ max_items \in 1..MaxPerQuery
    /\ queries \in UNION { [1..m -> Services] : m \in 0..MaxQueries }
    /\ items = << >>
    /\ fetched = 0
    /\ token = 0
    /\ ytPc = "main"
    /\ ytRows = << >>
    /\ FloorIdle /\ TokenIdle /\ ScrapeIdle
    /\ OthersIdle /\ SignalsIdle

\* main calls search for the next query
YtSearch ==
    /\ ytPc = "main"
    /\ queries # << >>
    /\ items' = << >>
    /\ fetched' = 0
    /\ token' = 0
    /\ ytPc' = "search"
    /\ UNCHANGED <<max_items, queries, ytRows>>
    /\ UNCHANGED <<floorVars, tokenVars, scrapeVars, analyzeVars, unsupVars, signalsVars>>

\* one pass of the while loop of search: request a page, extend items, test the exit
YtPage ==
    /\ ytPc = "search"
    /\ LET service == Head(queries)
           page == IF token = 0 THEN 1 ELSE token
           n == IF page <= Len(service.pages) THEN service.pages[page] ELSE 0
           more == page < Len(service.pages) \/ service.endless
       IN /\ items' = items \o [i \in 1..n |-> fetched + i]
          /\ fetched' = fetched + n
          /\ token' = IF more THEN Min(page + 1, Len(service.pages) + 1) ELSE 0
          /\ ytPc' = IF token' = 0 \/ fetched' >= max_items THEN "returned" ELSE "search"
    /\ UNCHANGED <<max_items, queries, ytRows>>
    /\ UNCHANGED <<floorVars, tokenVars, scrapeVars, analyzeVars, unsupVars, signalsVars>>

\* r.raise_for_status() raises; nothing catches it
YtHttpError ==
    /\ ytPc = "search"
    /\ ytPc' = "raised"
    /\ UNCHANGED <<max_items, items, fetched, token, queries, ytRows>>
    /\ UNCHANGED <<floorVars, tokenVars, scrapeVars, analyzeVars, unsupVars, signalsVars>>

\* main appends one row per returned item and goes to the next query
YtRows ==
    /\ ytPc = "returned"
    /\ ytRows' = ytRows \o [i \in DOMAIN items |-> [query |-> Len(queries), video_id |-> items[i]]]
    /\ queries' = Tail(queries)
    /\ ytPc' = "main"
    /\ UNCHANGED <<max_items, items, fetched, token>>
    /\ UNCHANGED <<floorVars, tokenVars, scrapeVars, analyzeVars, unsupVars, signalsVars>>

\* main writes the CSV
YtSave ==
    /\ ytPc = "main"
    /\ queries = << >>
    /\ ytPc' = "saved"
    /\ UNCHANGED <<max_items, items, fetched, token, queries, ytRows>>
    /\ UNCHANGED <<floorVars, tokenVars, scrapeVars, analyzeVars, unsupVars, signalsVars>>

NextYoutube ==
    \/ YtSearch
    \/ YtPage
    \/ YtHttpError
    \/ YtRows
    \/ YtSave

\* the script keeps running: every step of its own that changes the state is taken
\* in the end; whether a request fails is up to the service
SpecYoutube ==
    /\ InitYoutube
    /\ [][NextYoutube]_vars
    /\ WF_vars(YtSearch) /\ WF_vars(YtPage) /\ WF_vars(YtRows) /\ WF_vars(YtSave)

----------------------------------------------------------------------------
(* Claims about analyze_prettydata.py, checked under Spec *)

HasMentions == \E t \in DOMAIN ts : SeriesTotal(ts[t]) >= 1

\* C1: whenever some term of the trend table has at least one mention, the ranked list
\* of either direction is non-empty (the lists fall back to mention volume when no term
\* has a slope of the requested sign).
C1_NeverEmpty ==
    (pc = "done" /\ HasMentions) => (inc # << >> /\ dec # << >>)

RowOf(t) == [Term |-> t, estimate |-> trend[t].estimate, p_value |-> trend[t].p_value]

MatchTerms(direction) ==
    {t \in DOMAIN trend : IF direction = "+" THEN trend[t].estimate.num > 0
                          ELSE trend[t].estimate.num < 0}

SigTerms(direction) == {t \in MatchTerms(direction) : trend[t].p_value = "lt05"}

\* larger slope first for "+", more negative slope first for "-"
OrderedBySlope(res, direction) ==
    \A i \in 1..(Len(res) - 1) :
        LET d == res[i].estimate.num * res[i + 1].estimate.den
                 - res[i + 1].estimate.num * res[i].estimate.den
        IN IF direction = "+" THEN d >= 0 ELSE d <= 0

TierPrecedence(res, direction) ==
    LET terms == {res[i].Term : i \in DOMAIN res}
    IN /\ \A i \in DOMAIN res : res[i] = RowOf(res[i].Term)
       /\ OrderedBySlope(res, direction)
       /\ SigTerms(direction) # {} => (res # << >> /\ terms \subseteq SigTerms(direction))
       /\ SigTerms(direction) = {} =>
             /\ terms \subseteq MatchTerms(direction)
             /\ Len(res) = Min(k, Cardinality(MatchTerms(direction)))
             /\ Cardinality(terms) = Len(res)
             /\ \A t \in MatchTerms(direction) \ terms :
                    \A i \in DOMAIN res : OrderedBySlope(<<res[i], RowOf(t)>>, direction)

\* C2: if some term has a slope of the requested sign and p < 0.05, every returned row
\* has that sign and p < 0.05 and the rows are ordered by slope; only when there is no
\* such term is the result the (top k) terms of the requested sign, ordered by slope,
\* whatever their p-value.
C2_TierPrecedence ==
    pc = "done" => (TierPrecedence(inc, "+") /\ TierPrecedence(dec, "-"))

\* the significance tier decides one direction while the slope tier decides the other,
\* and a term of the right sign that is not significant is left out of the first
C2_Witness ==
    /\ pc = "done"
    /\ SigTerms("+") # {} /\ inc # << >>
    /\ SigTerms("-") = {} /\ dec # << >>

\* C3: the ranked list of a direction never has more than k rows, whichever tier
\* produced it.
C3_AtMostK ==
    pc = "done" => (Len(inc) <= k /\ Len(dec) <= k)

\* C4: a term whose series has no mention, or fewer than 3 buckets with a nonzero
\* count, gets slope 0.0 and p_value 1.0 exactly, and no regression is fitted for it.
C4_SparseNoTrend ==
    pc = "done" =>
        \A t \in DOMAIN ts :
            (SeriesTotal(ts[t]) = 0 \/ NonzeroBuckets(ts[t]) < 3)
                => (trend[t] = NoTrend /\ t \notin fitted)

\* the weekly buckets of the rows with a readable timestamp
CorpusBuckets == {period_start(r.created_utc.v) :
                     r \in {q \in DOMAIN raw : q.created_utc.kind = "int"}}

\* one entry per calendar week from the first bucket to the last, 7 days apart
DenseSeries(sub, buckets) ==
    /\ sub # << >>
    /\ \A b \in buckets : sub[1].period <= b /\ b <= sub[Len(sub)].period
    /\ \A i \in 1..(Len(sub) - 1) : sub[i + 1].period - sub[i].period = 7

\* C6: for every term with at least one mention, the series handed to the estimator
\* has exactly one entry for every weekly bucket between the earliest and the latest
\* bucket of the corpus, so consecutive entries are 7 days apart.
C6_DenseSeries ==
    pc = "done" =>
        \A t \in DOMAIN ts : SeriesTotal(ts[t]) >= 1 => DenseSeries(ts[t], CorpusBuckets)

\* C8: when the document table is absent or empty (and the terms file is there), the
\* run still writes every declared output file and does not fail.
C8_EmptyInputStillWrites ==
    (/\ pc # "input"
     /\ termsFile # "absent"
     /\ (rawState # "table" \/ BagSize(raw) = 0))
        => (pc = "done" /\ written = OutputFiles)

\* C9: when the terms file is absent, analyze stops with a fatal error before any
\* output file is written, whatever the state of the raw CSV.
C9_MissingTermsFatal ==
    (pc # "input" /\ termsFile = "absent") => (pc = "failed" /\ written = {})

----------------------------------------------------------------------------
(* Claims about analyze_unsupervised.py, checked under SpecUnsup *)

SingleWeek == Cardinality({r.period : r \in ct}) = 1

\* C5: a numerical failure while fitting one phrase's series (all documents in a single
\* week) never aborts the batch: the phrase gets slope 0 and p_value 1, every other
\* phrase still gets its record, and the run goes on to ranking and output.
C5_FitFailureRecovered ==
    (pc # "input" /\ vocab # {} /\ ~astype_raises(raw) /\ SingleWeek) =>
        /\ pc = "done"
        /\ DOMAIN join = ct_terms(ct)
        /\ \A t \in DOMAIN join :
              ~join[t].slope.nan /\ join[t].slope.num = 0 /\ join[t].pvalue = "one"

\* the weekly buckets of the rows whose created_utc is a number
ValidBuckets == {weekfloor(r.created_utc.v) : r \in {q \in DOMAIN raw : q.created_utc.kind = "int"}}

\* C7: a row whose timestamp is missing or unparseable is dropped before aggregation:
\* it contributes to no bucket count, does not extend the bucket range (it is never put
\* in a substitute bucket such as the week of epoch 0), and does not make the run fail.
C7_BadTimestampDropped ==
    /\ pc = "done" => \A rec \in ct : rec.period \in ValidBuckets
    /\ (pc = "failed" /\ rawState = "table") => ~astype_raises(raw)

\* slope_table has no guard at all: the part of C4 that is about it
C4_SparseNoTrend_slope_table ==
    pc = "done" =>
        \A t \in DOMAIN join :
            join[t].weeks_present < 3
                => (~join[t].slope.nan /\ join[t].slope.num = 0 /\ join[t].pvalue = "one")

\* slope_table regresses on the index of the weeks that have a count: the part of C6
\* that is about it (x spaced by one bucket means no calendar week is skipped)
C6_DenseSeries_slope_table ==
    pc = "done" =>
        LET weeks == ct_weeks(ct)
        IN \A i \in 1..(Len(weeks) - 1) : weeks[i + 1] - weeks[i] = 7

----------------------------------------------------------------------------
(* Claims about build_signals.py, checked under SpecSignals *)

\* the ban filter, stated on the characters of a phrase
HasBannedToken(p) == \E t \in Range(split(p, << >>)) : t \in STOP_PHRASES
HyphenAtEdge(p) == p # << >> /\ (Head(p) = "-" \/ p[Len(p)] = "-")
AllNumeric(p) == p # << >> /\ \A i \in DOMAIN p : p[i] \in Digits
BanFree(p) == ~HasBannedToken(p) /\ ~HyphenAtEdge(p) /\ ~AllNumeric(p)

\* C10: every phrase in the final signal list of build_signals passes the ban
\* filter: it contains no token of the stop/ban set, does not start or end with a
\* hyphen, and is not entirely numeric; the same holds for the list in signals.json.
C10_SignalsPassBanFilter ==
    /\ \A i \in DOMAIN signals : BanFree(signals[i].signal)
    /\ \A i \in DOMAIN outFile.signals : BanFree(outFile.signals[i].signal)

\* a finished run that aggregated a phrase with a hyphen at its edge and one with
\* a banned token, and still wrote a signal
C10_Witness ==
    /\ exit = "done"
    /\ outFile.signals # << >>
    /\ \E q \in DOMAIN agg : HyphenAtEdge(q)
    /\ \E q \in DOMAIN agg : HasBannedToken(q)

\* the phrase records a feed entry contributes
EntryPhrases(e) == Range(PhraseTable[e.text])

\* feed entries that yield phrases, none of which passes the ban filter
BannedOnlyEntries ==
    {e \in FeedEntries : /\ e.age <= MinDateDays
                         /\ EntryPhrases(e) # {}
                         /\ \A q \in EntryPhrases(e) : ~BanFree(q)}

\* the scored table the script computes when entry e is fetched on top of rows
ScoredWith(e) == score(aggregate(drop_single_token(records(BagAdd(rows, e)))))

\* C11: the ban filter is applied before aggregation and scoring: no phrase that
\* fails the ban filter is counted in the window aggregates or in the population of
\* the z-scores, so adding a document that holds only banned phrases never changes
\* the composite score of a surviving phrase.
C11_BanBeforeScoring ==
    exit = "done" =>
        /\ \A q \in DOMAIN agg : BanFree(q)
        /\ \A e \in BannedOnlyEntries : \A q \in DOMAIN agg :
              BanFree(q) => ScoredWith(e)[q].interest_score = agg[q].interest_score

NonIncreasing(s) == \A i, j \in DOMAIN s : i < j => s[i].interest_score >= s[j].interest_score
NoRepeat(s) == \A i, j \in DOMAIN s : i # j => s[i].signal # s[j].signal

\* C12: the signal list written by build_signals is sorted by interest score in
\* non-increasing order, holds each phrase at most once and has at most 200
\* entries; the cut that enforces the limit leaves at most n sorted, distinct
\* entries for the small limits n a run of this size can exceed as well.
C12_SortedUniqueBounded ==
    /\ NonIncreasing(outFile.signals)
    /\ NoRepeat(outFile.signals)
    /\ Len(outFile.signals) <= HeadLimit
    /\ exit = "done" =>
          \A n \in 0..MaxItems : \A s \in signal_list(agg, n) :
              Len(s) <= n /\ NonIncreasing(s) /\ NoRepeat(s)

\* a written list of at least two signals with different scores, from a table
\* that ranks more phrases than a limit of one would keep
C12_Witness ==
    /\ exit = "done"
    /\ Len(outFile.signals) >= 2
    /\ outFile.signals[1].interest_score > outFile.signals[Len(outFile.signals)].interest_score
    /\ \E s \in signal_list(agg, 1) : Len(s) = 1

----------------------------------------------------------------------------
(* Claims about the final lists of analyze_unsupervised.py and build_signals.py *)

\* C13: no single-token phrase appears in a final trend output: every entry of the
\* rising, falling and newly-emerging lists of analyze_unsupervised and every signal
\* of build_signals has at least two tokens.
C13_NoSingleToken ==
    /\ \A i \in DOMAIN inc : Len(inc[i]) >= 2
    /\ \A i \in DOMAIN dec : Len(dec[i]) >= 2
    /\ \A i \in DOMAIN new : Len(new[i]) >= 2
    /\ \A i \in DOMAIN outFile.signals : Len(split(outFile.signals[i].signal, << >>)) >= 2

\* the latest n weekly buckets of the observed horizon, as epoch days of their Mondays
LastBuckets(n) ==
    LET weeks == ct_weeks(ct)
    IN {weeks[Len(weeks)] - 7 * i : i \in 0..(n - 1)}

\* the number of weekly buckets from the earliest to the latest one
HorizonBuckets ==
    LET weeks == ct_weeks(ct)
    IN (weeks[Len(weeks)] - weeks[1]) \div 7 + 1

\* the latest n buckets among those that hold a count
LastPresentBuckets(n) ==
    LET weeks == ct_weeks(ct)
    IN {weeks[i] : i \in {x \in DOMAIN weeks : x > Len(weeks) - n}}

GenericUnigram(t) == Len(t) = 1 /\ t[1] \in GENERIC_UNIGRAMS

NewlyEmerging(recent) ==
    /\ \A i \in DOMAIN new :
          slope_positive(join[new[i]].slope) /\ join[new[i]].first_seen \in recent
    /\ \A t \in DOMAIN join :
          (slope_positive(join[t].slope) /\ join[t].first_seen \in recent /\ ~GenericUnigram(t))
              => t \in Range(new)

\* C14: every term of the newly-emerging list has a positive slope and a first-seen
\* bucket within the last N weekly buckets of the observed horizon (N = new_weeks),
\* every such term that is no generic unigram is in the list, and when the corpus
\* spans N buckets or fewer every positive-slope term qualifies.
C14_NewlyEmerging ==
    (pc = "done" /\ ct # {}) =>
        /\ NewlyEmerging(LastBuckets(args.new_weeks))
        /\ HorizonBuckets <= args.new_weeks =>
              \A t \in DOMAIN join :
                  (slope_positive(join[t].slope) /\ ~GenericUnigram(t)) => t \in Range(new)

\* the same rule over the buckets that hold a count, which is what the cutoff uses
C14_NewlyEmerging_present_buckets ==
    (pc = "done" /\ ct # {}) => NewlyEmerging(LastPresentBuckets(args.new_weeks))

----------------------------------------------------------------------------
(* Claims about bucket assignment, checked under SpecBuckets *)

\* epoch day d is a Monday: a whole number of weeks from 2024-01-01
IsMonday(d) == (d - 19723) % 7 = 0

\* C15: bucket assignment is floor-to-week: for every epoch second t the bucket of t
\* is a Monday (UTC) whose 00:00 is at or before t and less than 7 days before t,
\* so every timestamp has exactly one bucket and two timestamps of one
\* Monday-to-Sunday week have the same one.
C15_FloorToWeek ==
    bucket.by # "none" =>
        /\ IsMonday(bucket.day)
        /\ bucket.day * 86400 <= stamp
        /\ stamp < (bucket.day + 7) * 86400

\* weekfloor applied to the last second of a Sunday
C15_Witness ==
    /\ bucket.by = "weekfloor"
    /\ stamp = 1704067200 + 86400 * 6 + 86399
    /\ bucket.day = 19723

----------------------------------------------------------------------------
(* Claims about tokenize, checked under SpecTokenize *)

TokenChars == LowerCase \cup Digits \cup {"-"}

\* C16: tokenization is deterministic and idempotent: every token of tokenize(s) is
\* a non-empty string over lowercase letters, digits and hyphen with no whitespace,
\* and tokenize(" ".join(tokenize(s))) = tokenize(s).
C16_TokenizeIdempotent ==
    tokOut.done =>
        /\ tokOut.toks = tokenize(tokIn)
        /\ \A i \in DOMAIN tokOut.toks :
              /\ tokOut.toks[i] # << >>
              /\ \A j \in DOMAIN tokOut.toks[i] : tokOut.toks[i][j] \in TokenChars
        /\ tokenize(join_space(tokOut.toks)) = tokOut.toks

\* an input with a character unidecode spells with a capital letter, split in two tokens
C16_Witness ==
    /\ tokOut.done
    /\ \E i \in DOMAIN tokIn : tokIn[i] = "numero_sign"
    /\ Len(tokOut.toks) = 2

----------------------------------------------------------------------------
(* Claims about canonicalize, checked under SpecSignals *)

\* p is a canonical key or a variant of the synonym table
Listed(p) ==
    \E i \in DOMAIN SYNONYMS : p = SYNONYMS[i].canon \/ p \in Range(SYNONYMS[i].variants)

\* the phrases extracted from the fetched entries that fall in the long window
ExtractedInWindow ==
    UNION { Range(candidate_phrases(r.text)) : r \in {x \in DOMAIN rows : x.age < LongWindow} }

\* C17: canonicalization never makes a countable phrase vanish: the canonical key of
\* every synonym entry has at least two tokens and passes the ban/stop filter, so
\* every extracted mention of a listed variant or key is aggregated under the key and
\* stays eligible for the final signal list; canonicalize is idempotent.
C17_CanonicalKept ==
    exit = "done" =>
        \A p \in ExtractedInWindow :
            /\ canonicalize(canonicalize(p)) = canonicalize(p)
            /\ Listed(p) =>
                  /\ Len(split(canonicalize(p), << >>)) >= 2
                  /\ BanFree(canonicalize(p))
                  /\ canonicalize(p) \in DOMAIN agg
                  /\ \E i \in DOMAIN outFile.signals : outFile.signals[i].signal = canonicalize(p)

\* the part of C17 that is about idempotence alone
C17_CanonicalizeIdempotent ==
    \A r \in DOMAIN rows : \A p \in Range(candidate_phrases(r.text)) :
        canonicalize(canonicalize(p)) = canonicalize(p)

----------------------------------------------------------------------------
(* Claims about the window aggregates of build_signals.py, checked under SpecSignals *)

SourceKinds == {f.source : f \in FeedKinds}

\* C18: every phrase that reaches scoring has a long-window (28-day) count >= 1 and
\* a short-window (7-day) count <= the long-window count, so the divide-by-zero
\* branch is never taken, recency share lies in [0, 1], growth ratio is exactly 4
\* times recency share and lies in [0, 4], and source breadth is between 1 and the
\* number of distinct source kinds.
C18_WindowCounts ==
    \A q \in DOMAIN agg :
        /\ agg[q].mentions_28d >= 1
        /\ agg[q].mentions_7d >= 0
        /\ agg[q].mentions_7d <= agg[q].mentions_28d
        /\ agg[q].recency = [num |-> agg[q].mentions_7d, den |-> agg[q].mentions_28d]
        /\ agg[q].growth = [num |-> 4 * agg[q].mentions_7d, den |-> agg[q].mentions_28d]
        /\ 0 <= agg[q].recency.num /\ agg[q].recency.num <= agg[q].recency.den
        /\ agg[q].growth.num * agg[q].recency.den = 4 * agg[q].recency.num * agg[q].growth.den
        /\ 0 <= agg[q].growth.num /\ agg[q].growth.num <= 4 * agg[q].growth.den
        /\ 1 <= agg[q].source_breadth
        /\ agg[q].source_breadth <= Cardinality(SourceKinds)

\* a scored phrase mentioned by both source kinds, once inside the short window and
\* once outside it
C18_Witness ==
    /\ exit = "done"
    /\ \E q \in DOMAIN agg :
          /\ agg[q].mentions_7d = 1
          /\ agg[q].mentions_28d = 2
          /\ agg[q].source_breadth = 2

----------------------------------------------------------------------------
(* Claims about scrape_sub, checked under SpecScrape *)

\* C19: after any sequence of rate-limit or network failures raised in the middle of
\* a listing, followed by backoff and retry, the rows of scrape_sub hold each
\* submission at most once and never more than per_sub_limit rows; a retry does not
\* append again what was collected before the failure.
C19_NoDuplicateRows ==
    /\ \A i, j \in DOMAIN out : i # j => out[i] # out[j]
    /\ Len(out) <= listing.per_sub_limit

\* the part of C19 that is about the number of rows alone
C19_AtMostLimit == Len(out) <= listing.per_sub_limit

----------------------------------------------------------------------------
(* Claims about the paginated search of ingest_youtube.py, checked under SpecYoutube *)

\* the part of C20 that is about the number of items returned
C20_AtMostMaxItems == ytPc = "returned" => Len(items) <= max_items

\* the part of C20 that is about termination
C20_SearchEnds == (ytPc = "search") ~> (ytPc \in {"returned", "raised"})

\* C20: the paginated search loop terminates and returns at most max_items items for
\* any sequence of result pages: it stops when there is no next page token or the
\* number fetched reaches max_items, never returns more than max_items, and cannot
\* loop forever when the service keeps returning a next page token with empty pages.
C20_SearchTerminatesBounded ==
    /\ [](ytPc = "returned" => Len(items) <= max_items)
    /\ [](ytPc = "returned" => (token = 0 \/ fetched >= max_items))
    /\ (ytPc = "search") ~> (ytPc \in {"returned", "raised"})

====
